---- MODULE Spec2Model ----
(***************************************************************************)
(* Reliable file transfer over UDP.                                        *)
(*                                                                         *)
(* Sender   : src/sub/2022EE11837_2022EE31996/part2/p2_server.py (Server)  *)
(* Receiver : src/part2/p2_client.py (Client)                              *)
(*                                                                         *)
(* Time is abstract: time.time() may advance by any amount between two     *)
(* statements, so every comparison against the clock (RTO expiry, the      *)
(* watchdogs, the refractory period of the delay-gradient controller) is   *)
(* an input of the action that makes it.  Send times are kept only as the  *)
(* insertion order of curr_in_flight_packets, which is the order the code  *)
(* scans.                                                                  *)
(*                                                                         *)
(* A payload is a slice reference into the sender's file: [start, len]     *)
(* stands for file_data[start : start+len].  The literal b"EOF" carried by *)
(* the EOF segment is the slice with start = -1.                           *)
(*                                                                         *)
(* The network is a pair of sets of datagrams.  A datagram handed to       *)
(* sendto stays deliverable for ever: delivering it twice is duplication,  *)
(* delivering a later one first is reordering, never delivering it is      *)
(* loss.                                                                   *)
(***************************************************************************)
EXTENDS Integers, Sequences, FiniteSets, TLC

(* ------------------------------------------------------------------ *)
(* Program constants                                                   *)
(* ------------------------------------------------------------------ *)
SIZE_OF_HEADER == 20
MSS_BYTES == 1200
PAYLOAD_SIZE == MSS_BYTES - SIZE_OF_HEADER
MAX_CWND == 8 * 1024 * 1024
STATE_SS == 1
STATE_CA == 2
SYN_FLAG == 1
ACK_FLAG == 2
EOF_FLAG == 4
INITIAL_SSTHRESH == 600 * MSS_BYTES
MIN_CWND == 8 * MSS_BYTES
MIN_SSTHRESH == 2 * MSS_BYTES
RESEND_LIMIT == 15
\* INITIAL_RTO = 0.3 and MIN_RTO = 0.1 seconds, in milliseconds
INITIAL_RTO == 300
MIN_RTO == 100
EOF_PAYLOAD_LEN == 3
MAX_RECV_WINDOW_PACKETS == 2000
ADDITIVE_CAP == 32 * PAYLOAD_SIZE

(* ------------------------------------------------------------------ *)
(* Bounds of the model                                                 *)
(* ------------------------------------------------------------------ *)
\* the file has at most this many data segments
MaxFileSegments == 2
\* duplicate ACKs are counted up to this value (n_dup_ack is unbounded)
MaxDupAck == 3
\* the same for the runs in which foreign datagrams reach the sender
MaxFileSegmentsAnyAck == 1

\* lengths tried for the last data segment of the file
LastSegLens == {EOF_PAYLOAD_LEN, PAYLOAD_SIZE}
\* the payload lengths of the files the sender may have loaded
FileSizesUpTo(n) ==
  {0} \cup { (k - 1) * PAYLOAD_SIZE + l : k \in 1..n, l \in LastSegLens }
FileSizes == FileSizesUpTo(MaxFileSegments)
\* number of successful sendto calls before the socket refuses one
SendBudgets == 0..(MaxFileSegments + 1)
\* values of rtt_curr + K * rtt_variance, in milliseconds: a local link, the
\* initial estimate, a path far slower than the cap of 3 s
NewRtoSamples == {0, INITIAL_RTO, 30 * 1000}
\* values of min(mult_cap, 1.0 + abs(queuing_grad) * 10.0), in percent
GradGrowPct == {120, 125}

(* ------------------------------------------------------------------ *)
(* Helpers                                                             *)
(* ------------------------------------------------------------------ *)
Max(a, b) == IF a >= b THEN a ELSE b
Min(a, b) == IF a <= b THEN a ELSE b

\* python: flags & f, for a single-bit f
HasFlag(flags, f) == (flags \div f) % 2 = 1

RECURSIVE Pow2Below(_, _)
\* largest power of two p*2^i that is <= n (n >= 1, called with p = 1)
Pow2Below(n, p) == IF 2 * p <= n THEN Pow2Below(n, 2 * p) ELSE p

\* python: int(c * 0.7) in IEEE double arithmetic.  The double nearest to
\* 0.7 is below 0.7, so when 7c/10 is an integer N the product rounds to
\* the double below N exactly when N > 1.75 * 2^floor(log2 N).
IntMul07(c) ==
  LET N == (7 * c) \div 10
  IN  IF (7 * c) % 10 = 0 /\ N > 0 /\ 4 * N > 7 * Pow2Below(N, 1) THEN N - 1 ELSE N

\* python: int(c * p/100) for p in {85, 90, 95, 120, 125}; exact for every
\* c <= MAX_CWND
IntMulPct(c, p) == (c * p) \div 100

(* ------------------------------------------------------------------ *)
(* Datagrams                                                           *)
(* ------------------------------------------------------------------ *)
NoData == [start |-> 0, len |-> 0]
EofData == [start |-> -1, len |-> EOF_PAYLOAD_LEN]

\* struct.pack(HEADER_FORMAT, seq_num, ack_num, flags, sack_start, sack_end) + data
Packet(seq, ack, flags, ss, se, data) ==
  [seq |-> seq, ack |-> ack, flags |-> flags, sack_start |-> ss, sack_end |-> se, data |-> data]

\* number of bytes of datagram p
DatagramLen(p) == SIZE_OF_HEADER + p.data.len

\* struct.unpack(HEADER_FORMAT, packet[:SIZE_OF_HEADER]) raises struct.error
HeaderUnreadable(p) == DatagramLen(p) < SIZE_OF_HEADER

VARIABLES
  \* ---- sender (Server) ----
  file_size,               \* len(self.file_data)
  state,                   \* STATE_SS / STATE_CA
  cwnd_bytes,
  ssthresh,
  next_seq_num,
  curr_base_seq_num,
  eof_sent_seq,
  is_connection_dead,
  curr_in_flight_packets,  \* OrderedDict, as a sequence of [seq, pkt, rc] in dict order
  n_dup_ack,
  sacked_packets,
  w_max_bytes,             \* in twentieths of a byte (the code multiplies by 1.7/2.0)
  t_last_congestion,       \* 0 (the initial 0.0) or 1 (a reading of time.time())
  ack_worth_count,         \* in units of 1/PAYLOAD_SIZE
  n_rtt_samples,           \* RTT samples taken so far, saturating at 2
  rto,                     \* in milliseconds
  s_pc,                    \* position in Server.run
  s_outcome,               \* why the loop of Server.run ended
  s_exit,                  \* exit status of the sender process, -1 while running
  s_last_rcvd,             \* ack_packet: the datagram recvfrom has just returned, if any
  \* ---- receiver (Client) ----
  next_expected_seq_num,
  receive_buffer,          \* heap, as the set of its entries [seq, data, flags]
  receive_buffer_seqs,
  output_file,             \* the sink: sequence of payloads written, in order
  c_pc,                    \* position in Client.run
  request_attempts,        \* requests send_request has handed to sendto
  c_outcome,               \* why the loop of Client.run ended
  c_exit,                  \* exit status of the receiver process, -1 while running
  c_last_ack,              \* last datagram the receiver handed to sendto
  \* ---- network ----
  data_net,                \* datagrams sent by the sender
  ack_net,                 \* datagrams sent by the receiver
  \* ---- fixed-window pair (ReliableUDPServer / ReliableUDPClient) ----
  fw_program,              \* which pair runs: "part1", "col334", or "none"
  tail_is_eof,             \* the last segment of the source is the 3 bytes b'EOF'
  sws,                     \* sender-window-size argument
  base,
  next_seq,
  window,                  \* keys of self.window (part1) / self.packets (col334)
  dup_ack_count,
  last_ack,                \* col334 only
  fw_pc,                   \* position in handle_client (part1) / send_file (col334)
  next_expected,           \* self.next_expected (part1) / self.expected_seq (col334)
  p1_receive_buffer,       \* self.receive_buffer (part1) / self.received_data (col334)
  file_complete            \* part1 file_complete / col334 left its loop on EOF

sender_vars ==
  <<file_size, state, cwnd_bytes, ssthresh, next_seq_num, curr_base_seq_num,
    eof_sent_seq, is_connection_dead, curr_in_flight_packets, n_dup_ack,
    sacked_packets, w_max_bytes, t_last_congestion, ack_worth_count,
    n_rtt_samples, rto, s_pc, s_outcome, s_exit, s_last_rcvd>>

receiver_vars ==
  <<next_expected_seq_num, receive_buffer, receive_buffer_seqs, output_file,
    c_pc, request_attempts, c_outcome, c_exit, c_last_ack>>

fixed_vars ==
  <<fw_program, tail_is_eof, sws, base, next_seq, window, dup_ack_count, last_ack, fw_pc,
    next_expected, p1_receive_buffer, file_complete>>

vars == <<sender_vars, receiver_vars, data_net, ack_net, fixed_vars>>

NoPacket == Packet(0, 0, 0, 0, 0, NoData)

\* Server.__init__, the congestion-control and RTT fields
InitCongestion ==
  /\ state = STATE_SS
  /\ cwnd_bytes = MSS_BYTES
  /\ ssthresh = INITIAL_SSTHRESH
  /\ w_max_bytes = 0
  /\ t_last_congestion = 0
  /\ ack_worth_count = 0
  /\ n_rtt_samples = 0
  /\ rto = INITIAL_RTO

\* the fixed-window pair is not started
InitFixedIdle ==
  /\ fw_program = "none"
  /\ tail_is_eof = FALSE
  /\ sws = 0
  /\ base = 0
  /\ next_seq = 0
  /\ window = {}
  /\ dup_ack_count = 0
  /\ last_ack = 0
  /\ fw_pc = "done"
  /\ next_expected = 0
  /\ p1_receive_buffer = {}
  /\ file_complete = FALSE

\* Server.__init__ and Client.__init__ without the file
InitEndpoints ==
  /\ next_seq_num = 0
  /\ curr_base_seq_num = 0
  /\ eof_sent_seq = -1
  /\ is_connection_dead = FALSE
  /\ curr_in_flight_packets = <<>>
  /\ n_dup_ack = 0
  /\ sacked_packets = {}
  /\ s_pc = "select"
  /\ s_outcome = "NONE"
  /\ s_exit = -1
  /\ s_last_rcvd = NoPacket
  /\ next_expected_seq_num = 0
  /\ receive_buffer = {}
  /\ receive_buffer_seqs = {}
  /\ output_file = <<>>
  /\ c_pc = "recv"
  /\ request_attempts = 1
  /\ c_outcome = "NONE"
  /\ c_exit = -1
  /\ c_last_ack = NoPacket
  /\ data_net = {}
  /\ ack_net = {}

\* Server.__init__ and Client.__init__, everything but congestion control
InitTransfer ==
  /\ file_size \in FileSizes
  /\ InitEndpoints
  /\ InitFixedIdle

Init == InitCongestion /\ InitTransfer

(* ------------------------------------------------------------------ *)
(* Receiver: Client.process_packet                                     *)
(* ------------------------------------------------------------------ *)

\* heapq: receive_buffer[0] is the entry with the least sequence number
HeapMin(buf) == CHOOSE e \in buf : \A f \in buf : e.seq <= f.seq

find_first_sack_block(buf) ==
  IF buf = {} THEN <<0, 0>>
  ELSE <<HeapMin(buf).seq, HeapMin(buf).seq + HeapMin(buf).data.len>>

\* prepare_ack: the ACK datagram handed to sendto
prepare_ack_ahead(ack_num, flags, ss, se) ==
  Packet(0, ack_num + PAYLOAD_SIZE, flags, ss, se, NoData)

prepare_ack(ack_num, flags, ss, se) == Packet(0, ack_num, flags, ss, se, NoData)

\* variant of IsExpected that also accepts a segment from the past
IsExpected_past(seq_num, nxt) == seq_num <= nxt

\* line 135 / 156: the segment is the one expected next
IsExpected(seq_num, nxt) == seq_num = nxt

\* variant of HeadIsContiguous that drains the head across a gap
HeadIsContiguous_gap(buf, nxt) == buf # {} /\ HeapMin(buf).seq >= nxt

\* line 162: the head of the heap continues the delivered prefix
HeadIsContiguous(buf, nxt) == buf # {} /\ HeapMin(buf).seq = nxt

\* the cumulative value of the final ACK sent when EOF arrives in order (line 137)
DirectEofAck(seq_num) == seq_num

\* the cumulative value of the final ACK sent when a buffered EOF is drained (line 169)
BufferedEofAck(nxt) == nxt + 1

RECURSIVE Drain_keepseqs(_, _, _, _)
\* variant of Drain that leaves the popped sequence numbers in the set
Drain_keepseqs(nxt, buf, seqs, sink) ==
  IF HeadIsContiguous(buf, nxt)
  THEN LET e == HeapMin(buf)
       IN  IF HasFlag(e.flags, EOF_FLAG)
           THEN [next |-> nxt, buf |-> buf \ {e}, seqs |-> seqs,
                 sink |-> sink, eof |-> TRUE]
           ELSE Drain_keepseqs(nxt + e.data.len, buf \ {e}, seqs, Append(sink, e.data))
  ELSE [next |-> nxt, buf |-> buf, seqs |-> seqs, sink |-> sink, eof |-> FALSE]

RECURSIVE Drain(_, _, _, _)
\* lines 162-174: pop contiguous entries; stops at a buffered EOF
Drain(nxt, buf, seqs, sink) ==
  IF HeadIsContiguous(buf, nxt)
  THEN LET e == HeapMin(buf)
       IN  IF HasFlag(e.flags, EOF_FLAG)
           THEN [next |-> nxt, buf |-> buf \ {e}, seqs |-> seqs \ {e.seq},
                 sink |-> sink, eof |-> TRUE]
           ELSE Drain(nxt + e.data.len, buf \ {e}, seqs \ {e.seq}, Append(sink, e.data))
  ELSE [next |-> nxt, buf |-> buf, seqs |-> seqs, sink |-> sink, eof |-> FALSE]

\* Client.cleanup followed by the return of run and of main: the process
\* ends with exit status 0 whatever ended the loop
ClientExitStatus(outcome) == 0

ClientStop(outcome) ==
  /\ c_pc' = "exited"
  /\ UNCHANGED request_attempts
  /\ c_outcome' = outcome
  /\ c_exit' = ClientExitStatus(outcome)

\* run goes on (or, after the first datagram, starts) with its receive loop
ClientContinue ==
  /\ c_pc' = "recv"
  /\ UNCHANGED <<request_attempts, c_outcome, c_exit>>

\* variant of ClientSendAck that hands nothing to sendto
ClientSendAck_silent(a) ==
  /\ ack_net' = ack_net
  /\ c_last_ack' = a

ClientSendAck(a) ==
  /\ ack_net' = ack_net \cup {a}
  /\ c_last_ack' = a

\* Client.process_packet(p)
process_packet(p) ==
  /\ UNCHANGED <<fixed_vars, sender_vars, data_net>>
  /\ IF HasFlag(p.flags, EOF_FLAG)
     THEN IF IsExpected(p.seq, next_expected_seq_num)
          THEN /\ ClientSendAck(prepare_ack(DirectEofAck(p.seq), ACK_FLAG + EOF_FLAG, 0, 0))
               /\ ClientStop("DONE")
               /\ UNCHANGED <<next_expected_seq_num, receive_buffer, receive_buffer_seqs,
                              output_file>>
          ELSE LET store == p.seq > next_expected_seq_num /\ p.seq \notin receive_buffer_seqs
                   buf == IF store
                          THEN receive_buffer \cup {[seq |-> p.seq, data |-> p.data, flags |-> p.flags]}
                          ELSE receive_buffer
                   sb == find_first_sack_block(buf)
               IN  /\ receive_buffer' = buf
                   /\ receive_buffer_seqs' =
                        IF store THEN receive_buffer_seqs \cup {p.seq} ELSE receive_buffer_seqs
                   /\ ClientSendAck(prepare_ack(next_expected_seq_num, ACK_FLAG, sb[1], sb[2]))
                   /\ ClientContinue
                   /\ UNCHANGED <<next_expected_seq_num, output_file>>
     ELSE IF IsExpected(p.seq, next_expected_seq_num)
          THEN LET d == Drain(next_expected_seq_num + p.data.len, receive_buffer,
                              receive_buffer_seqs, Append(output_file, p.data))
                   sb == find_first_sack_block(d.buf)
               IN  /\ next_expected_seq_num' = d.next
                   /\ receive_buffer' = d.buf
                   /\ receive_buffer_seqs' = d.seqs
                   /\ output_file' = d.sink
                   /\ IF d.eof
                      THEN /\ ClientSendAck(prepare_ack(BufferedEofAck(d.next), ACK_FLAG + EOF_FLAG, 0, 0))
                           /\ ClientStop("DONE")
                      ELSE /\ ClientSendAck(prepare_ack(d.next, ACK_FLAG, sb[1], sb[2]))
                           /\ ClientContinue
          ELSE IF p.seq > next_expected_seq_num
          THEN LET store == /\ p.seq \notin receive_buffer_seqs
                            /\ Cardinality(receive_buffer) < MAX_RECV_WINDOW_PACKETS
               IN  /\ receive_buffer' =
                        IF store
                        THEN receive_buffer \cup {[seq |-> p.seq, data |-> p.data, flags |-> p.flags]}
                        ELSE receive_buffer
                   /\ receive_buffer_seqs' =
                        IF store THEN receive_buffer_seqs \cup {p.seq} ELSE receive_buffer_seqs
                   /\ ClientSendAck(prepare_ack(next_expected_seq_num, ACK_FLAG,
                                                p.seq, p.seq + p.data.len))
                   /\ ClientContinue
                   /\ UNCHANGED <<next_expected_seq_num, output_file>>
          ELSE LET sb == find_first_sack_block(receive_buffer)
               IN  /\ ClientSendAck(prepare_ack(next_expected_seq_num, ACK_FLAG, sb[1], sb[2]))
                   /\ ClientContinue
                   /\ UNCHANGED <<next_expected_seq_num, receive_buffer, receive_buffer_seqs,
                                  output_file>>

\* recvfrom raised socket.timeout (30 s without a datagram): the loop ends
ClientTimeout ==
  /\ c_pc = "recv"
  /\ ClientStop("TIMEOUT")
  /\ UNCHANGED <<fixed_vars, sender_vars, data_net, ack_net, next_expected_seq_num, receive_buffer,
                 receive_buffer_seqs, output_file, c_last_ack>>

\* Client.run, lines 231-236: recvfrom returned datagram p; process_packet(p)
ClientRecv(p) ==
  /\ c_pc = "recv"
  /\ p \in data_net
  /\ process_packet(p)

(* ------------------------------------------------------------------ *)
(* Sender: congestion controller                                       *)
(* ------------------------------------------------------------------ *)

\* the congestion-control fields of Server, as one record
CC ==
  [state |-> state, cwnd_bytes |-> cwnd_bytes, ssthresh |-> ssthresh,
   w_max_bytes |-> w_max_bytes, t_last_congestion |-> t_last_congestion,
   ack_worth_count |-> ack_worth_count]

\* Server.update_cubic_metrics (K is a function of w_max_bytes and is not kept)
update_cubic_metrics(cc) ==
  [cc EXCEPT !.t_last_congestion = 1,
             !.w_max_bytes = IF 20 * cc.cwnd_bytes < cc.w_max_bytes
                             THEN 17 * cc.cwnd_bytes
                             ELSE 20 * cc.cwnd_bytes,
             !.ssthresh = Max(IntMul07(cc.cwnd_bytes), MIN_SSTHRESH)]

\* variant of TimeoutReaction without the floor of 8 * MSS_BYTES
TimeoutReaction_nofloor(cc) ==
  LET c1 == [cc EXCEPT !.cwnd_bytes = IntMulPct(cc.cwnd_bytes, 85)]
      c2 == [c1 EXCEPT !.ssthresh = IntMulPct(c1.cwnd_bytes, 90)]
  IN  update_cubic_metrics(c2)

\* Server.handle_timeouts, lines 209-211: the reaction to an expired timer
TimeoutReaction(cc) ==
  LET c1 == [cc EXCEPT !.cwnd_bytes = Max(IntMulPct(cc.cwnd_bytes, 85), MIN_CWND)]
      c2 == [c1 EXCEPT !.ssthresh = Max(IntMulPct(c1.cwnd_bytes, 90), MIN_CWND)]
  IN  update_cubic_metrics(c2)

\* Server.handle_dup_acks, lines 263-264: the reaction to the third duplicate ACK
DupAckReaction(cc) ==
  update_cubic_metrics([cc EXCEPT !.cwnd_bytes = Max(IntMulPct(cc.cwnd_bytes, 85), MIN_CWND)])

\* variant of incoming_ack_with_ss that stays in slow start
incoming_ack_with_ss_stay(cc, acked_bytes) ==
  [cc EXCEPT !.cwnd_bytes = Max(Min(cc.cwnd_bytes + acked_bytes, MAX_CWND), MIN_CWND)]

\* Server.incoming_ack_with_ss
incoming_ack_with_ss(cc, acked_bytes) ==
  LET c1 == [cc EXCEPT !.cwnd_bytes =
                 Max(Min(cc.cwnd_bytes + acked_bytes, MAX_CWND), MIN_CWND)]
  IN  IF c1.cwnd_bytes >= c1.ssthresh
      THEN update_cubic_metrics([c1 EXCEPT !.state = STATE_CA])
      ELSE c1

\* Server.incoming_ack_with_ca
incoming_ack_with_ca(cc, acked_bytes) ==
  LET worth == cc.ack_worth_count + Max(PAYLOAD_SIZE, acked_bytes)
      i == worth \div PAYLOAD_SIZE
  IN  [cc EXCEPT !.cwnd_bytes = Max(Min(cc.cwnd_bytes + i * PAYLOAD_SIZE, MAX_CWND), MIN_CWND),
                 !.ack_worth_count = worth - i * PAYLOAD_SIZE]

\* the outcomes Server.update_queueing_delays can have on the sample that
\* follows n earlier ones: 0 = no adjustment, -1 = the reduction of lines
\* 130-137, p in GradGrowPct = the growth of lines 139-154 with
\* min(mult_cap, 1 + 10|queuing_grad|) = p/100.  The first sample gives a
\* zero gradient; a negative gradient needs a third sample.
QdOutcomes(n, st) ==
  {0} \cup (IF n >= 1 THEN {-1} ELSE {})
      \cup (IF n >= 2 /\ st = STATE_CA THEN GradGrowPct ELSE {})

\* Server.update_queueing_delays with outcome qd
update_queueing_delays(cc, qd) ==
  IF qd = 0 THEN cc
  ELSE IF qd = -1
  THEN LET c1 == [cc EXCEPT !.cwnd_bytes = Max(IntMulPct(cc.cwnd_bytes, 90), MIN_CWND)]
           c2 == [c1 EXCEPT !.ssthresh = Max(IntMulPct(c1.cwnd_bytes, 90), MIN_CWND),
                            !.state = STATE_CA]
       IN  update_cubic_metrics(c2)
  ELSE LET mult_candidate == IntMulPct(cc.cwnd_bytes, qd)
           add_candidate == cc.cwnd_bytes + ADDITIVE_CAP
           t1 == Min(mult_candidate, add_candidate)
           target == IF t1 <= cc.cwnd_bytes
                     THEN cc.cwnd_bytes + Min(ADDITIVE_CAP, IntMulPct(cc.cwnd_bytes, 5) + PAYLOAD_SIZE)
                     ELSE t1
           c1 == [cc EXCEPT !.cwnd_bytes = Max(Min(target, MAX_CWND), MIN_CWND)]
       IN  [c1 EXCEPT !.ssthresh = Max(IntMulPct(c1.cwnd_bytes, 95), MIN_CWND)]

SetCC(cc) ==
  /\ state' = cc.state
  /\ cwnd_bytes' = cc.cwnd_bytes
  /\ ssthresh' = cc.ssthresh
  /\ w_max_bytes' = cc.w_max_bytes
  /\ t_last_congestion' = cc.t_last_congestion
  /\ ack_worth_count' = cc.ack_worth_count

(* ------------------------------------------------------------------ *)
(* Sender: retransmission queue                                        *)
(* ------------------------------------------------------------------ *)

InFlightSeqs(q) == { q[i].seq : i \in DOMAIN q }

Record(q, seq) == q[CHOOSE i \in DOMAIN q : q[i].seq = seq]

\* del d[seq]: the sequence without the record of seq
Without(q, seq) == SelectSeq(q, LAMBDA r : r.seq # seq)

\* variant of OverResendLimit that lets one more resend through
OverResendLimit_late(rc) == rc > RESEND_LIMIT + 1

\* the retransmit count above which resend_packet aborts (line 179)
OverResendLimit(rc) == rc > RESEND_LIMIT

\* Server.resend_packet, lines 183-184: the record moves to the tail with
\* its retransmit count incremented
Requeue(q, seq) ==
  Append(Without(q, seq), [Record(q, seq) EXCEPT !.rc = @ + 1])

\* Server.handle_timeouts, lines 207-208: the record the scan resends.  Send
\* times do not decrease along the dict order, so if any timer has expired
\* the first record's has.
TimeoutVictim(q) == q[1].seq

RECURSIVE SumLen(_, _)
\* lines 295-299: the payload bytes of the records with seq < cum_ack
SumLen(q, cum_ack) ==
  IF q = <<>> THEN 0
  ELSE (IF Head(q).seq < cum_ack THEN Max(Head(q).pkt.data.len, 0) ELSE 0)
       + SumLen(Tail(q), cum_ack)

\* line 287
NewlyAcked(q, cum_ack) == { s \in InFlightSeqs(q) : s < cum_ack }

\* lines 300-301
RemoveAcked(q, cum_ack) == SelectSeq(q, LAMBDA r : ~(r.seq < cum_ack))

SetMax(S) == CHOOSE x \in S : \A y \in S : y <= x

\* lines 289-294: the ACK yields an RTT sample
TakesSample(q, cum_ack) ==
  /\ NewlyAcked(q, cum_ack) # {}
  /\ Record(q, SetMax(NewlyAcked(q, cum_ack))).rc = 0

(* ------------------------------------------------------------------ *)
(* Sender: ACK handling                                                *)
(* ------------------------------------------------------------------ *)

\* Server.update_sacked_packets
update_sacked_packets(sacked, q, ss, se) ==
  IF ss > 0 /\ se > ss /\ ss \in InFlightSeqs(q) THEN sacked \cup {ss} ELSE sacked

\* line 260
IsDupAck(cum_ack, base_seq) == cum_ack = base_seq

\* variant of IsNewAck that takes a stale ACK for a new one
IsNewAck_stale(cum_ack, base_seq) == cum_ack # base_seq

\* line 323
IsNewAck(cum_ack, base_seq) == cum_ack > base_seq

\* variant of IsFinalAck that does not look at the EOF flag
IsFinalAck_noflag(flags, cum_ack, eof) == cum_ack > eof

\* line 308: the ACK is the final one
IsFinalAck(flags, cum_ack, eof) == HasFlag(flags, EOF_FLAG) /\ cum_ack > eof

\* main() returns after run() returns, whatever ended the loop: status 0
ServerExitStatus(outcome) == 0

ServerStop(outcome) ==
  /\ s_pc' = "exited"
  /\ s_outcome' = outcome
  /\ s_exit' = ServerExitStatus(outcome)

ServerGoto(pc) ==
  /\ s_pc' = pc
  /\ UNCHANGED <<s_outcome, s_exit>>

\* Server.handle_dup_acks for an ACK with cum_ack = curr_base_seq_num
handle_dup_acks ==
  /\ n_dup_ack' = Min(n_dup_ack + 1, MaxDupAck)
  /\ IF n_dup_ack + 1 = 3 THEN SetCC(DupAckReaction(CC)) ELSE SetCC(CC)
  /\ UNCHANGED <<curr_in_flight_packets, curr_base_seq_num, n_rtt_samples, rto>>
  /\ ServerGoto("timeouts")

\* Server.update_rto, lines 167-172, in milliseconds: new_rto is
\* rtt_curr + K * rtt_variance, which the samples measured so far decide
update_rto(r, new_rto) ==
  LET r1 == IF r = 0 THEN Max(MIN_RTO, new_rto)
            ELSE (9 * r + Max(MIN_RTO, new_rto)) \div 10
  IN  Max(MIN_RTO, Min(r1, 3000))

\* Server.handle_new_acks, lines 293-294 and 304-307: what a new ACK does to
\* the congestion controller
NewAckReaction(cc, sample, acked_bytes, qd) ==
  LET c1 == IF sample THEN update_queueing_delays(cc, qd) ELSE cc
  IN  IF c1.state = STATE_SS THEN incoming_ack_with_ss(c1, acked_bytes)
      ELSE incoming_ack_with_ca(c1, acked_bytes)

\* variant of DupCountAfterNewAck that keeps the count
DupCountAfterNewAck_keep(n) == n

\* Server.handle_new_acks, line 286: self.n_dup_ack = 0
DupCountAfterNewAck(n) == 0

\* Server.handle_new_acks, with outcome qd of update_queueing_delays when a
\* sample is taken
handle_new_acks(cum_ack, flags, qd) ==
  LET sample == TakesSample(curr_in_flight_packets, cum_ack)
      acked_bytes == SumLen(curr_in_flight_packets, cum_ack)
      c2 == NewAckReaction(CC, sample, acked_bytes, qd)
  IN  /\ qd \in (IF sample THEN QdOutcomes(n_rtt_samples, state) ELSE {0})
      /\ n_dup_ack' = DupCountAfterNewAck(n_dup_ack)
      /\ n_rtt_samples' = IF sample THEN Min(n_rtt_samples + 1, 2) ELSE n_rtt_samples
      /\ \E new_rto \in NewRtoSamples :
           rto' = IF sample THEN update_rto(rto, new_rto) ELSE rto
      /\ curr_in_flight_packets' = RemoveAcked(curr_in_flight_packets, cum_ack)
      /\ curr_base_seq_num' = cum_ack
      /\ SetCC(c2)
      /\ IF IsFinalAck(flags, cum_ack, eof_sent_seq)
         THEN ServerStop("DONE")
         ELSE ServerGoto("timeouts")

\* Server.process_incoming_ack(a)
process_incoming_ack(a, qd) ==
  IF HeaderUnreadable(a) \/ ~HasFlag(a.flags, ACK_FLAG)
  THEN /\ qd = 0
       /\ ServerGoto("timeouts")
       /\ UNCHANGED <<state, cwnd_bytes, ssthresh, w_max_bytes, t_last_congestion,
                      ack_worth_count, n_dup_ack, n_rtt_samples, rto, curr_in_flight_packets,
                      curr_base_seq_num, sacked_packets>>
  ELSE LET sacked == update_sacked_packets(sacked_packets, curr_in_flight_packets,
                                           a.sack_start, a.sack_end)
       IN  IF IsDupAck(a.ack, curr_base_seq_num)
           THEN /\ qd = 0
                /\ sacked_packets' = sacked
                /\ handle_dup_acks
           ELSE IF IsNewAck(a.ack, curr_base_seq_num)
           THEN /\ sacked_packets' = sacked \ NewlyAcked(curr_in_flight_packets, a.ack)
                /\ handle_new_acks(a.ack, a.flags, qd)
           ELSE /\ qd = 0
                /\ sacked_packets' = sacked
                /\ ServerGoto("timeouts")
                /\ UNCHANGED <<state, cwnd_bytes, ssthresh, w_max_bytes, t_last_congestion,
                               ack_worth_count, n_dup_ack, n_rtt_samples, rto,
                               curr_in_flight_packets, curr_base_seq_num>>

(* ------------------------------------------------------------------ *)
(* Sender: Server.run, one action per step of the loop body            *)
(* ------------------------------------------------------------------ *)

\* line 371: the loop sees is_connection_dead and ends
ServerDead ==
  /\ s_pc = "select"
  /\ is_connection_dead
  /\ ServerStop("DEAD")
  /\ UNCHANGED <<file_size, state, cwnd_bytes, ssthresh, next_seq_num, curr_base_seq_num,
                 eof_sent_seq, is_connection_dead, curr_in_flight_packets, n_dup_ack,
                 sacked_packets, w_max_bytes, t_last_congestion, ack_worth_count,
                 n_rtt_samples, rto, s_last_rcvd, receiver_vars, fixed_vars, data_net, ack_net>>

\* lines 379-380: recvfrom has returned a; process_incoming_ack(a)
ServerHandle(a, qd) ==
  /\ s_pc = "select"
  /\ ~is_connection_dead
  /\ process_incoming_ack(a, qd)
  /\ s_last_rcvd' = a
  /\ UNCHANGED <<file_size, next_seq_num, eof_sent_seq, is_connection_dead,
                 receiver_vars, fixed_vars, data_net, ack_net>>

\* lines 377-380: select reports the socket readable and recvfrom returns a
\* datagram of the receiver's
ServerRecv(a, qd) == a \in ack_net /\ ServerHandle(a, qd)

\* line 377: select returns after td with nothing to read
ServerSelectTimeout ==
  /\ s_pc = "select"
  /\ ~is_connection_dead
  /\ ServerGoto("timeouts")
  /\ UNCHANGED <<file_size, state, cwnd_bytes, ssthresh, next_seq_num, curr_base_seq_num,
                 eof_sent_seq, is_connection_dead, curr_in_flight_packets, n_dup_ack,
                 sacked_packets, w_max_bytes, t_last_congestion, ack_worth_count,
                 n_rtt_samples, rto, receiver_vars, fixed_vars, data_net, ack_net>>
  /\ s_last_rcvd' = NoPacket

\* line 394: handle_timeouts; expired says whether the oldest timer has run out
ServerHandleTimeouts(expired) ==
  /\ s_pc = "timeouts"
  /\ ServerGoto("send")
  /\ IF expired /\ curr_in_flight_packets # <<>>
     THEN LET seq == TimeoutVictim(curr_in_flight_packets)
          IN  /\ SetCC(TimeoutReaction(CC))
              /\ IF OverResendLimit(Record(curr_in_flight_packets, seq).rc)
                 THEN /\ is_connection_dead' = TRUE
                      /\ UNCHANGED <<curr_in_flight_packets, data_net>>
                 ELSE /\ curr_in_flight_packets' = Requeue(curr_in_flight_packets, seq)
                      /\ data_net' = data_net \cup {Record(curr_in_flight_packets, seq).pkt}
                      /\ UNCHANGED is_connection_dead
     ELSE /\ ~expired
          /\ UNCHANGED <<state, cwnd_bytes, ssthresh, w_max_bytes, t_last_congestion,
                         ack_worth_count, is_connection_dead, curr_in_flight_packets, data_net>>
  /\ s_last_rcvd' = NoPacket
  /\ UNCHANGED <<file_size, next_seq_num, curr_base_seq_num, eof_sent_seq, n_dup_ack,
                 sacked_packets, n_rtt_samples, rto, receiver_vars, fixed_vars, ack_net>>

\* variant of AdvanceNextSeq that leaves next_seq_num where it was
AdvanceNextSeq_stay(nsn, end) == nsn

\* Server.get_next_content, line 222: self.next_seq_num = end
AdvanceNextSeq(nsn, end) == end

RECURSIVE SendLoop(_, _, _, _, _, _)
\* Server.send_new_data_from_file with get_next_content inlined; budget is
\* the number of sendto calls that succeed before one raises
SendLoop(nsn, eof, q, net, dead, budget) ==
  LET stay == [next_seq_num |-> nsn, eof_sent_seq |-> eof, q |-> q, net |-> net, dead |-> dead]
  IN  IF ~(nsn - curr_base_seq_num < cwnd_bytes) \/ dead THEN stay
      ELSE IF nsn < file_size
      THEN LET end == Min(nsn + PAYLOAD_SIZE, file_size)
               pkt == Packet(nsn, 0, 0, 0, 0, [start |-> nsn, len |-> end - nsn])
           IN  IF budget = 0
               THEN [stay EXCEPT !.next_seq_num = AdvanceNextSeq(nsn, end), !.dead = TRUE]
               ELSE SendLoop(AdvanceNextSeq(nsn, end), eof,
                             Append(q, [seq |-> nsn, pkt |-> pkt, rc |-> 0]),
                             net \cup {pkt}, dead, budget - 1)
      ELSE IF eof = -1
      THEN LET pkt == Packet(file_size, 0, EOF_FLAG, 0, 0, EofData)
           IN  IF budget = 0
               THEN [stay EXCEPT !.eof_sent_seq = file_size, !.dead = TRUE]
               ELSE [stay EXCEPT !.eof_sent_seq = file_size,
                                 !.q = Append(q, [seq |-> file_size, pkt |-> pkt, rc |-> 0]),
                                 !.net = net \cup {pkt}]
      ELSE stay

\* lines 395-398: send_new_data_from_file, then the no-ACK watchdog; silent
\* says whether 30 s have passed since the last ACK
ServerSendNewData(budget, silent) ==
  /\ s_pc = "send"
  /\ LET r == SendLoop(next_seq_num, eof_sent_seq, curr_in_flight_packets, data_net,
                       is_connection_dead, budget)
     IN  /\ next_seq_num' = r.next_seq_num
         /\ eof_sent_seq' = r.eof_sent_seq
         /\ curr_in_flight_packets' = r.q
         /\ data_net' = r.net
         /\ is_connection_dead' = r.dead
  /\ IF silent THEN ServerStop("WATCHDOG") ELSE ServerGoto("select")
  /\ UNCHANGED <<file_size, state, cwnd_bytes, ssthresh, curr_base_seq_num, n_dup_ack,
                 sacked_packets, w_max_bytes, t_last_congestion, ack_worth_count,
                 n_rtt_samples, rto, s_last_rcvd, receiver_vars, fixed_vars, ack_net>>

QdInputs == {0, -1} \cup GradGrowPct

Next ==
  \/ \E p \in data_net : ClientRecv(p)
  \/ ClientTimeout
  \/ ServerDead
  \/ \E a \in ack_net, qd \in QdInputs : ServerRecv(a, qd)
  \/ ServerSelectTimeout
  \/ \E expired \in BOOLEAN : ServerHandleTimeouts(expired)
  \/ \E budget \in SendBudgets, silent \in BOOLEAN : ServerSendNewData(budget, silent)

Spec == Init /\ [][Next]_vars

(* ------------------------------------------------------------------ *)
(* An open network: datagrams that no receiver of this session sent    *)
(* ------------------------------------------------------------------ *)

\* ACK headers that claim more than the final offset, with and without EOF
ForgedAcks ==
  { prepare_ack(file_size + 1, f, 0, 0) : f \in {ACK_FLAG, ACK_FLAG + EOF_FLAG} }

\* a datagram from elsewhere reaches the sender's socket (UDP is
\* unauthenticated) and recvfrom returns it
ServerRecvForged(a, qd) == a \in ForgedAcks /\ ServerHandle(a, qd)

NextAnyAck ==
  \/ Next
  \/ \E a \in ForgedAcks, qd \in QdInputs : ServerRecvForged(a, qd)

InitAnyAck == Init /\ file_size \in FileSizesUpTo(MaxFileSegmentsAnyAck)

SpecAnyAck == InitAnyAck /\ [][NextAnyAck]_vars

\* SACK blocks that start above 0 and do not end after their start
InconsistentSackBlocks ==
  {<<PAYLOAD_SIZE, PAYLOAD_SIZE>>, <<PAYLOAD_SIZE, EOF_PAYLOAD_LEN>>}

\* ACK headers with such a block, for a duplicate and for a new cumulative ACK
InconsistentSackAcks ==
  { prepare_ack(c, ACK_FLAG, b[1], b[2]) :
      c \in {curr_base_seq_num, next_seq_num}, b \in InconsistentSackBlocks }

\* recvfrom returns one of them
ServerRecvBadSack(a, qd) == a \in InconsistentSackAcks /\ ServerHandle(a, qd)

NextBadSack ==
  \/ Next
  \/ \E a \in InconsistentSackAcks, qd \in QdInputs : ServerRecvBadSack(a, qd)

SpecBadSack == InitAnyAck /\ [][NextBadSack]_vars

\* ACK headers older than the base, with a SACK block naming a segment in
\* flight
StaleSackAcks ==
  { prepare_ack(c, ACK_FLAG, curr_in_flight_packets[i].seq,
                curr_in_flight_packets[i].seq + curr_in_flight_packets[i].pkt.data.len) :
      c \in { k \in {0, curr_base_seq_num - 1} : 0 <= k /\ k < curr_base_seq_num },
      i \in { j \in DOMAIN curr_in_flight_packets : curr_in_flight_packets[j].seq > 0 } }

\* recvfrom returns one of them
ServerRecvStale(a, qd) == a \in StaleSackAcks /\ ServerHandle(a, qd)

NextStale ==
  \/ Next
  \/ \E a \in StaleSackAcks, qd \in QdInputs : ServerRecvStale(a, qd)

SpecStale == InitAnyAck /\ [][NextStale]_vars

(* ------------------------------------------------------------------ *)
(* Datagrams shorter than the header                                   *)
(* ------------------------------------------------------------------ *)

\* lengths tried for a datagram too short to hold the header
ShortDatagramLens == {0, 1, SIZE_OF_HEADER - 1}

\* their header fields cannot be read; the fields of the record are unused
ShortDatagrams ==
  { Packet(0, 0, 0, 0, 0, [start |-> 0, len |-> n - SIZE_OF_HEADER]) : n \in ShortDatagramLens }

\* Client.run / process_packet of part2/p2_client.py on such a datagram:
\* unpack_header returns a tuple of None and line 128 returns "CONTINUE"
ClientRecvShort(p) ==
  /\ c_pc = "recv"
  /\ HeaderUnreadable(p)
  /\ UNCHANGED vars

\* Client.run / process_packet of src/p2_client.py on such a datagram:
\* unpack_header returns a tuple of four None, which is not None (line 105),
\* unpacking it into three names raises ValueError (line 108), and the loop
\* of run ends on the exception (lines 208-210)
RootClientRecvShort(p) ==
  /\ c_pc = "recv"
  /\ HeaderUnreadable(p)
  /\ ClientStop("ERROR")
  /\ UNCHANGED <<fixed_vars, sender_vars, data_net, ack_net, next_expected_seq_num, receive_buffer,
                 receive_buffer_seqs, output_file, c_last_ack>>

\* Server.run of sub/.../part2/p2_server.py on such a datagram
ServerRecvShort(p) == HeaderUnreadable(p) /\ ServerHandle(p, 0)

NextShort ==
  \/ Next
  \/ \E p \in ShortDatagrams : ClientRecvShort(p)
  \/ \E p \in ShortDatagrams : RootClientRecvShort(p)
  \/ \E p \in ShortDatagrams : ServerRecvShort(p)

SpecShort == InitAnyAck /\ [][NextShort]_vars

(* ------------------------------------------------------------------ *)
(* The file-request handshake: Client.send_request of                  *)
(* part2/p2_client.py and the head of Server.run, before the transfer  *)
(* ------------------------------------------------------------------ *)

\* Client.__init__, line 35: self.socket.settimeout(30.0), in milliseconds
SOCKET_TIMEOUT_MS == 30000
\* Client.send_request, line 72
retries == 5

\* request_packet = b'\x01': one byte, too short to hold a header
RequestDatagram == Packet(0, 0, 0, 0, 0, [start |-> 0, len |-> 1 - SIZE_OF_HEADER])

InitHandshake ==
  /\ InitCongestion
  /\ InitFixedIdle
  /\ file_size \in FileSizes
  /\ next_seq_num = 0
  /\ curr_base_seq_num = 0
  /\ eof_sent_seq = -1
  /\ is_connection_dead = FALSE
  /\ curr_in_flight_packets = <<>>
  /\ n_dup_ack = 0
  /\ sacked_packets = {}
  /\ s_pc = "wait"
  /\ s_outcome = "NONE"
  /\ s_exit = -1
  /\ s_last_rcvd = NoPacket
  /\ next_expected_seq_num = 0
  /\ receive_buffer = {}
  /\ receive_buffer_seqs = {}
  /\ output_file = <<>>
  /\ c_pc = "request"
  /\ request_attempts = 0
  /\ c_outcome = "NONE"
  /\ c_exit = -1
  /\ c_last_ack = NoPacket
  /\ data_net = {}
  /\ ack_net = {}

\* send_request, lines 73-77 and 84-86: the next attempt hands the request
\* to sendto and waits in recvfrom; ok says whether sendto returns
ClientSendRequest(ok) ==
  /\ c_pc = "request"
  /\ IF ok
     THEN /\ request_attempts' = request_attempts + 1
          /\ ack_net' = ack_net \cup {RequestDatagram}
          /\ c_pc' = "await"
          /\ UNCHANGED <<c_outcome, c_exit>>
     ELSE /\ ClientStop("ERROR")
          /\ UNCHANGED ack_net
  /\ UNCHANGED <<fixed_vars, sender_vars, data_net, next_expected_seq_num, receive_buffer,
                 receive_buffer_seqs, output_file, c_last_ack>>

\* send_request, lines 81-83 and 87-88: recvfrom raises socket.timeout after
\* the socket's timeout; after the last attempt run closes the socket and
\* returns (lines 211-214)
ClientRequestTimeout ==
  /\ c_pc = "await"
  /\ IF request_attempts < retries
     THEN /\ c_pc' = "request"
          /\ UNCHANGED <<request_attempts, c_outcome, c_exit>>
     ELSE ClientStop("NOCONNECT")
  /\ UNCHANGED <<fixed_vars, sender_vars, data_net, ack_net, next_expected_seq_num,
                 receive_buffer, receive_buffer_seqs, output_file, c_last_ack>>

\* send_request, lines 78-80, and run, lines 216-229: the first datagram
\* recvfrom returns is handed to process_packet
ClientFirstPacket(p) ==
  /\ c_pc = "await"
  /\ p \in data_net
  /\ process_packet(p)

\* Server.run, lines 350-357: select reports a datagram within 15 s and
\* recvfrom takes it as the request, whatever it holds
ServerAccept(p) ==
  /\ s_pc = "wait"
  /\ p \in ack_net
  /\ ServerGoto("select")
  /\ UNCHANGED <<file_size, state, cwnd_bytes, ssthresh, next_seq_num, curr_base_seq_num,
                 eof_sent_seq, is_connection_dead, curr_in_flight_packets, n_dup_ack,
                 sacked_packets, w_max_bytes, t_last_congestion, ack_worth_count,
                 n_rtt_samples, rto, s_last_rcvd, receiver_vars, fixed_vars, data_net, ack_net>>

\* Server.run, lines 351-355: nothing arrives within 15 s
ServerWaitTimeout ==
  /\ s_pc = "wait"
  /\ ServerStop("NOCLIENT")
  /\ UNCHANGED <<file_size, state, cwnd_bytes, ssthresh, next_seq_num, curr_base_seq_num,
                 eof_sent_seq, is_connection_dead, curr_in_flight_packets, n_dup_ack,
                 sacked_packets, w_max_bytes, t_last_congestion, ack_worth_count,
                 n_rtt_samples, rto, s_last_rcvd, receiver_vars, fixed_vars, data_net, ack_net>>

NextHandshake ==
  \/ \E ok \in BOOLEAN : ClientSendRequest(ok)
  \/ ClientRequestTimeout
  \/ \E p \in data_net : ClientFirstPacket(p)
  \/ \E p \in ack_net : ServerAccept(p)
  \/ ServerWaitTimeout
  \/ Next

SpecHandshake == InitHandshake /\ [][NextHandshake]_vars

(* ------------------------------------------------------------------ *)
(* The congestion controller alone: one operation applied to a state   *)
(* a longer transfer can have brought it to                            *)
(* ------------------------------------------------------------------ *)

\* window sizes between the initial one and the cap
CwndSamples ==
  {MSS_BYTES, MIN_CWND, MIN_CWND + PAYLOAD_SIZE, INITIAL_SSTHRESH,
   MAX_CWND - PAYLOAD_SIZE, MAX_CWND}
\* thresholds between the floor of update_cubic_metrics and the initial one
SsthreshSamples == {MIN_SSTHRESH, MIN_CWND, INITIAL_SSTHRESH}
\* bytes one cumulative ACK can remove from the queue
AckedSamples == {0, EOF_PAYLOAD_LEN, PAYLOAD_SIZE, 600 * PAYLOAD_SIZE}

InitCC ==
  /\ InitTransfer
  /\ file_size = 0
  /\ state \in {STATE_SS, STATE_CA}
  /\ cwnd_bytes \in CwndSamples
  /\ ssthresh \in SsthreshSamples
  /\ w_max_bytes \in {0, 20 * MAX_CWND}
  /\ t_last_congestion = 0
  /\ ack_worth_count \in {0, PAYLOAD_SIZE - 1}
  /\ n_rtt_samples = 2
  /\ rto = INITIAL_RTO

\* the controller fields change as cc says, the loop moves on, nothing else
CCStep(cc) ==
  /\ s_pc = "select"
  /\ SetCC(cc)
  /\ s_pc' = "timeouts"
  /\ UNCHANGED <<file_size, next_seq_num, curr_base_seq_num, eof_sent_seq,
                 is_connection_dead, curr_in_flight_packets, n_dup_ack, sacked_packets,
                 n_rtt_samples, rto, s_outcome, s_exit, s_last_rcvd, receiver_vars, fixed_vars,
                 data_net, ack_net>>

CCTimeout == CCStep(TimeoutReaction(CC))

CCDupAck == CCStep(DupAckReaction(CC))

CCNewAck(sample, acked_bytes, qd) ==
  /\ qd \in (IF sample THEN QdOutcomes(n_rtt_samples, state) ELSE {0})
  /\ CCStep(NewAckReaction(CC, sample, acked_bytes, qd))

NextCC ==
  \/ CCTimeout
  \/ CCDupAck
  \/ \E sample \in BOOLEAN, acked_bytes \in AckedSamples, qd \in QdInputs :
        CCNewAck(sample, acked_bytes, qd)

SpecCC == InitCC /\ [][NextCC]_vars

(* ------------------------------------------------------------------ *)
(* The Reno controller of src/p2_server.py alone: update_cwnd and the  *)
(* duplicate-ACK counter, driven as process_incoming_ack and           *)
(* find_timeouts drive them.  cwnd is held in cwnd_bytes, base_seq_num *)
(* in curr_base_seq_num; cwnd is a float in this sender and the model  *)
(* keeps its whole bytes.                                              *)
(* ------------------------------------------------------------------ *)

STATE_FAST_RECOVERY == 3

\* segments the cumulative ACKs of one run acknowledge
MaxRenoSegments == 4
\* duplicate ACKs one loss can draw: the window of inflation, in segments
MaxRenoInflation == 8

\* the fields update_cwnd works on
Reno ==
  [state |-> state, cwnd |-> cwnd_bytes, ssthresh |-> ssthresh,
   dup_ack_count |-> dup_ack_count]

\* Server.update_cwnd(case)
update_cwnd(r, case) ==
  IF case = "TLE"
  THEN [state |-> STATE_SS, ssthresh |-> Max(r.cwnd \div 2, 2 * PAYLOAD_SIZE),
        cwnd |-> PAYLOAD_SIZE, dup_ack_count |-> 0]
  ELSE IF case = "DUP"
  THEN LET th == Max(r.cwnd \div 2, 2 * PAYLOAD_SIZE)
       IN  [r EXCEPT !.state = STATE_FAST_RECOVERY, !.ssthresh = th,
                     !.cwnd = th + 3 * PAYLOAD_SIZE]
  ELSE IF case = "NEW_ACK"
  THEN IF r.state = STATE_SS
       THEN LET c == r.cwnd + PAYLOAD_SIZE
            IN  [r EXCEPT !.cwnd = c,
                          !.state = IF c >= r.ssthresh THEN STATE_CA ELSE STATE_SS]
       ELSE IF r.state = STATE_CA
       THEN [r EXCEPT !.cwnd = r.cwnd + (PAYLOAD_SIZE * PAYLOAD_SIZE) \div r.cwnd]
       ELSE [r EXCEPT !.cwnd = r.ssthresh, !.state = STATE_CA, !.dup_ack_count = 0]
  ELSE \* "INFLATE"
       IF r.state = STATE_FAST_RECOVERY
       THEN [r EXCEPT !.cwnd = r.cwnd + PAYLOAD_SIZE]
       ELSE r

InitReno ==
  /\ InitTransfer
  /\ state = STATE_SS
  /\ cwnd_bytes = PAYLOAD_SIZE
  /\ ssthresh = 64 * 1024
  /\ w_max_bytes = 0
  /\ t_last_congestion = 0
  /\ ack_worth_count = 0
  /\ n_rtt_samples = 0
  /\ rto = INITIAL_RTO

\* the controller fields change as r says, ack is the ACK handled (NoPacket
\* in find_timeouts), nothing else moves
RenoStep(r, ack) ==
  /\ state' = r.state
  /\ cwnd_bytes' = r.cwnd
  /\ ssthresh' = r.ssthresh
  /\ dup_ack_count' = r.dup_ack_count
  /\ s_last_rcvd' = ack
  /\ UNCHANGED <<file_size, next_seq_num, eof_sent_seq, is_connection_dead,
                 curr_in_flight_packets, n_dup_ack, sacked_packets, w_max_bytes,
                 t_last_congestion, ack_worth_count, n_rtt_samples, rto, s_pc, s_outcome,
                 s_exit, receiver_vars, data_net, ack_net, fw_program, tail_is_eof, sws, base,
                 next_seq, window, last_ack, fw_pc, next_expected, p1_receive_buffer,
                 file_complete>>

\* Server.process_incoming_ack, cum_ack > base_seq_num
RenoNewAck ==
  /\ curr_base_seq_num < MaxRenoSegments * PAYLOAD_SIZE
  /\ curr_base_seq_num' = curr_base_seq_num + PAYLOAD_SIZE
  /\ RenoStep(update_cwnd([Reno EXCEPT !.dup_ack_count = 0], "NEW_ACK"),
              prepare_ack(curr_base_seq_num + PAYLOAD_SIZE, ACK_FLAG, 0, 0))

\* Server.process_incoming_ack, cum_ack == base_seq_num
RenoDupAck ==
  LET r1 == IF state # STATE_FAST_RECOVERY
            THEN [Reno EXCEPT !.dup_ack_count = dup_ack_count + 1]
            ELSE update_cwnd(Reno, "INFLATE")
      r2 == IF r1.dup_ack_count = 3 /\ r1.state # STATE_FAST_RECOVERY
            THEN update_cwnd(r1, "DUP")
            ELSE r1
  IN  /\ cwnd_bytes < MaxRenoInflation * PAYLOAD_SIZE
      /\ UNCHANGED curr_base_seq_num
      /\ RenoStep(r2, prepare_ack(curr_base_seq_num, ACK_FLAG, 0, 0))

\* Server.find_timeouts, the timer of the segment at base_seq_num has run out
RenoTimeout ==
  /\ UNCHANGED curr_base_seq_num
  /\ RenoStep(update_cwnd(Reno, "TLE"), NoPacket)

NextReno == RenoNewAck \/ RenoDupAck \/ RenoTimeout

SpecReno == InitReno /\ [][NextReno]_vars

(* ------------------------------------------------------------------ *)
(* A benign network and clock, for liveness                            *)
(*                                                                     *)
(* No datagram is lost for good, no send fails, a watchdog fires only  *)
(* when the peer has stopped, and a retransmission timer runs out only *)
(* when waiting longer cannot help: the receiver already holds (or has *)
(* stopped and will never take) the oldest segment in flight, and no   *)
(* ACK that would advance base is still on its way.                    *)
(* ------------------------------------------------------------------ *)

ReceiverHolds(seq) ==
  \/ c_pc = "exited"
  \/ seq < next_expected_seq_num
  \/ seq \in receive_buffer_seqs

UsefulAckPending == \E a \in ack_net : a.ack > curr_base_seq_num

TimerMayExpire ==
  /\ curr_in_flight_packets # <<>>
  /\ ReceiverHolds(TimeoutVictim(curr_in_flight_packets))
  /\ ~UsefulAckPending

NoSendFailure == MaxFileSegments + 1

LiveClientRecvNext ==
  \E p \in data_net : p.seq = next_expected_seq_num /\ ClientRecv(p)

LiveServerRecvUseful ==
  \E a \in ack_net, qd \in QdInputs : a.ack > curr_base_seq_num /\ ServerRecv(a, qd)

LiveServerTimerExpires == TimerMayExpire /\ ServerHandleTimeouts(TRUE)

LiveServerSend(silent) ==
  (silent => c_pc = "exited") /\ ServerSendNewData(NoSendFailure, silent)

NextLive ==
  \/ \E p \in data_net : ClientRecv(p)
  \/ ServerDead
  \/ \E a \in ack_net, qd \in QdInputs : ServerRecv(a, qd)
  \/ ServerSelectTimeout
  \/ ServerHandleTimeouts(FALSE)
  \/ LiveServerTimerExpires
  \/ \E silent \in BOOLEAN : LiveServerSend(silent)

\* the sender's loop keeps running and time passes (a timer that may run
\* out eventually does); the needed datagrams are eventually delivered
LiveSpec ==
  /\ Init
  /\ [][NextLive]_vars
  /\ WF_vars(NextLive)
  /\ SF_vars(LiveServerTimerExpires)
  /\ SF_vars(LiveServerRecvUseful)
  /\ WF_vars(LiveClientRecvNext)

(* ------------------------------------------------------------------ *)
(* The receiver alone, near the cap of its reassembly buffer:          *)
(* process_packet applied to receiver states in which a run of whole   *)
(* segments is buffered behind a gap.  The sender fields are those of  *)
(* Server.__init__; no sender step is taken.                           *)
(* ------------------------------------------------------------------ *)

\* a data segment of the file, as the sender frames it
Segment(k) ==
  Packet(k * PAYLOAD_SIZE, 0, 0, 0, 0, [start |-> k * PAYLOAD_SIZE, len |-> PAYLOAD_SIZE])

\* heap entries for segments g+1 .. g+n
BufferedRun(g, n) ==
  { [seq |-> Segment(k).seq, data |-> Segment(k).data, flags |-> 0] : k \in (g + 1)..(g + n) }

\* the receiver has written g segments, segment g is lost, the next n are
\* buffered; the file has MAX_RECV_WINDOW_PACKETS + 3 segments, and the
\* rest of it, a second copy of the last buffered segment and the EOF
\* segment are on their way
InitFullBuffer ==
  /\ InitCongestion
  /\ InitFixedIdle
  /\ file_size = (MAX_RECV_WINDOW_PACKETS + 3) * PAYLOAD_SIZE
  /\ next_seq_num = 0
  /\ curr_base_seq_num = 0
  /\ eof_sent_seq = -1
  /\ is_connection_dead = FALSE
  /\ curr_in_flight_packets = <<>>
  /\ n_dup_ack = 0
  /\ sacked_packets = {}
  /\ s_pc = "select"
  /\ s_outcome = "NONE"
  /\ s_exit = -1
  /\ s_last_rcvd = NoPacket
  /\ \E g \in {0, 1}, n \in (MAX_RECV_WINDOW_PACKETS - 2)..MAX_RECV_WINDOW_PACKETS :
        /\ next_expected_seq_num = g * PAYLOAD_SIZE
        /\ output_file = [i \in 1..g |-> Segment(i - 1).data]
        /\ receive_buffer = BufferedRun(g, n)
        /\ receive_buffer_seqs = { e.seq : e \in BufferedRun(g, n) }
        /\ c_last_ack = prepare_ack(g * PAYLOAD_SIZE, ACK_FLAG, Segment(g + n).seq,
                                    Segment(g + n).seq + PAYLOAD_SIZE)
        /\ ack_net = {c_last_ack}
        /\ data_net = { Segment(k) : k \in (g + n + 1)..(MAX_RECV_WINDOW_PACKETS + 2) }
                        \cup {Segment(g + n), Packet(file_size, 0, EOF_FLAG, 0, 0, EofData)}
  /\ request_attempts = 1
  /\ c_pc = "recv"
  /\ c_outcome = "NONE"
  /\ c_exit = -1

NextFullBuffer ==
  \/ \E p \in data_net : ClientRecv(p)
  \/ ClientTimeout

SpecFullBuffer == InitFullBuffer /\ [][NextFullBuffer]_vars

(* ------------------------------------------------------------------ *)
(* The fixed-window pairs                                              *)
(*   part1  : src/part1/p1_server.py, src/part1/p1_client.py           *)
(*   col334 : src/col334-assignment4-main/p1_server.py, p1_client.py   *)
(* A data datagram is [seq, len, eof], eof telling whether its payload *)
(* is the 3 bytes b'EOF'; an ACK is [ack, blocks].  The                *)
(* send time and the retransmission count of a window entry only feed  *)
(* the clock comparisons, which are inputs here, so the window is the  *)
(* set of its keys.  The bytes the part1 receiver has written are      *)
(* next_expected, the two are advanced together.                       *)
(* ------------------------------------------------------------------ *)
MAX_PAYLOAD == 1200
HEADER_SIZE == 20
MAX_DATA_SIZE == MAX_PAYLOAD - HEADER_SIZE
DATA_SIZE == MAX_PAYLOAD - HEADER_SIZE
DUP_ACK_THRESHOLD == 3
\* max_burst of send_window
MAX_BURST == 200

\* largest file of a fixed-window run, in segments
MaxFixedFileSegments == 5

\* whole segments, or whole segments and a last segment of one byte or of
\* the length of the EOF marker
FixedFileSizes ==
  {0} \cup { (k - 1) * MAX_DATA_SIZE + l :
               k \in 1..MaxFixedFileSegments, l \in {1, EOF_PAYLOAD_LEN, MAX_DATA_SIZE} }

\* int(sys.argv[3])
SwsSamples == {0, MAX_DATA_SIZE, 1500, 2 * MAX_DATA_SIZE, 3 * MAX_DATA_SIZE}

\* number of sendto calls of one send_window that succeed before
\* BlockingIOError
FixedSendBudgets == {0, 1, MAX_BURST}

\* min(MAX_DATA_SIZE, self.file_size - seq)
SegLen(seq) == Min(MAX_DATA_SIZE, file_size - seq)

\* the sequence numbers of the segments from lo up to, not including, hi
SegSeqs(lo, hi) ==
  { k * MAX_DATA_SIZE : k \in 0..((file_size - 1) \div MAX_DATA_SIZE) }
    \cap { q \in lo..(hi - 1) : q % MAX_DATA_SIZE = 0 }

\* the payload file_data[seq : seq + SegLen(seq)] reads b'EOF'
PayloadIsEofText(seq) ==
  tail_is_eof /\ SegLen(seq) = EOF_PAYLOAD_LEN /\ seq + SegLen(seq) = file_size

\* packet_cache[seq] / create_packet(seq, data); eof is what the receivers'
\* test data == b'EOF' gives for the datagram
DataPacket(seq) == [seq |-> seq, len |-> SegLen(seq), eof |-> PayloadIsEofText(seq)]
\* struct.pack('!I', file_size) + 16 zero bytes + b'EOF'
EofPacket == [seq |-> file_size, len |-> EOF_PAYLOAD_LEN, eof |-> TRUE]

(* ---- part1 sender ---- *)

RECURSIVE send_window_loop(_, _, _, _)
\* the while loop of send_window: the value of next_seq when it ends
send_window_loop(available, nseq, packets_sent, budget) ==
  IF available >= MAX_DATA_SIZE /\ nseq < file_size /\ packets_sent < MAX_BURST /\ budget > 0
  THEN send_window_loop(available - SegLen(nseq), nseq + SegLen(nseq), packets_sent + 1, budget - 1)
  ELSE nseq

\* ReliableUDPServer.send_window on window win
send_window(win, budget) ==
  LET bytes_in_flight == Cardinality(win) * MAX_DATA_SIZE
      available == sws - bytes_in_flight
      nseq == send_window_loop(available, next_seq, 0, budget)
  IN  /\ next_seq' = nseq
      /\ window' = win \cup SegSeqs(next_seq, nseq)
      /\ data_net' = data_net \cup { DataPacket(q) : q \in SegSeqs(next_seq, nseq) }

\* parse_ack keeps a block only if start > 0 and end > start
parse_ack(a) ==
  [ack |-> a.ack,
   blocks |-> SelectSeq(a.blocks, LAMBDA b : b[1] > 0 /\ b[2] > b[1])]

InBlocks(q, blocks) == \E i \in DOMAIN blocks : blocks[i][1] <= q /\ q < blocks[i][2]

\* the window after handle_ack(ack_num, sack_blocks)
WindowAfterAck(ack_num, blocks) ==
  IF ack_num > base
  THEN { q \in window : q >= ack_num /\ ~InBlocks(q, blocks) }
  ELSE window

\* handle_ack without the window; fast_retransmit sends a datagram that was
\* sent before and touches only the entry's time and count
handle_ack(ack_num) ==
  IF ack_num > base
  THEN /\ base' = ack_num
       /\ dup_ack_count' = 0
  ELSE IF ack_num = base
  THEN /\ dup_ack_count' = Min(dup_ack_count + 1, DUP_ACK_THRESHOLD + 1)
       /\ base' = base
  ELSE UNCHANGED <<base, dup_ack_count>>

\* while self.base < self.file_size or self.window
P1LoopRuns == base < file_size \/ window # {}

FixedFrame ==
  UNCHANGED <<sender_vars, receiver_vars, fw_program, tail_is_eof, sws>>

\* handle_client: the initial send_window()
P1InitialSend(budget) ==
  /\ fw_program = "part1" /\ fw_pc = "send"
  /\ send_window(window, budget)
  /\ fw_pc' = "loop"
  /\ FixedFrame
  /\ UNCHANGED <<base, dup_ack_count, last_ack, next_expected, p1_receive_buffer,
                 file_complete, ack_net>>

\* handle_client: one ACK is read and handled, then send_window()
P1RecvAck(a, budget) ==
  /\ fw_program = "part1" /\ fw_pc = "loop" /\ P1LoopRuns
  /\ a \in ack_net
  /\ LET h == parse_ack(a)
     IN  /\ handle_ack(h.ack)
         /\ send_window(WindowAfterAck(h.ack, h.blocks), budget)
  /\ FixedFrame
  /\ UNCHANGED <<last_ack, fw_pc, next_expected, p1_receive_buffer, file_complete, ack_net>>

\* handle_client: check_timeouts() sends again datagrams that were sent
\* before, then send_window()
P1CheckTimeouts(budget) ==
  /\ fw_program = "part1" /\ fw_pc = "loop" /\ P1LoopRuns
  /\ send_window(window, budget)
  /\ FixedFrame
  /\ UNCHANGED <<base, dup_ack_count, last_ack, fw_pc, next_expected, p1_receive_buffer,
                 file_complete, ack_net>>

\* handle_client: the loop ends, send_eof()
P1SendEof ==
  /\ fw_program = "part1" /\ fw_pc = "loop" /\ ~P1LoopRuns
  /\ data_net' = data_net \cup {EofPacket}
  /\ fw_pc' = "done"
  /\ FixedFrame
  /\ UNCHANGED <<base, next_seq, window, dup_ack_count, last_ack, next_expected,
                 p1_receive_buffer, file_complete, ack_net>>

(* ---- part1 receiver ---- *)

BufferHas(buf, q) == \E e \in buf : e.seq = q
BufferAt(buf, q) == CHOOSE e \in buf : e.seq = q

RECURSIVE write_buffered_data(_, _)
\* ReliableUDPClient.write_buffered_data: [next_expected, buffer, complete]
write_buffered_data(ne, buf) ==
  IF ~BufferHas(buf, ne) THEN [ne |-> ne, buf |-> buf, complete |-> FALSE]
  ELSE LET e == BufferAt(buf, ne)
       IN  IF e.eof THEN [ne |-> ne, buf |-> buf \ {e}, complete |-> TRUE]
           ELSE write_buffered_data(ne + e.len, buf \ {e})

\* the sorted keys of a buffer
RECURSIVE SortedEntries(_)
SortedEntries(buf) ==
  IF buf = {} THEN <<>>
  ELSE LET e == CHOOSE x \in buf : \A y \in buf : x.seq <= y.seq
       IN  <<e>> \o SortedEntries(buf \ {e})

RECURSIVE p1_blocks(_, _, _, _)
\* create_ack: the loop over sorted_seqs[1:] and the last block
p1_blocks(es, block_start, block_end, ne) ==
  IF es = <<>>
  THEN IF block_start >= ne THEN << <<block_start, block_end>> >> ELSE <<>>
  ELSE LET e == Head(es)
       IN  IF e.seq <= block_end
           THEN p1_blocks(Tail(es), block_start, Max(block_end, e.seq + e.len), ne)
           ELSE (IF block_start >= ne THEN << <<block_start, block_end>> >> ELSE <<>>)
                  \o p1_blocks(Tail(es), e.seq, e.seq + e.len, ne)

FirstN(q, n) == SubSeq(q, 1, Min(Len(q), n))

\* ReliableUDPClient.create_ack
create_ack(ne, buf) ==
  LET es == SortedEntries(buf)
      blocks == IF es = <<>> THEN <<>>
                ELSE p1_blocks(Tail(es), es[1].seq, es[1].seq + es[1].len, ne)
  IN  [ack |-> ne, blocks |-> FirstN(blocks, 2)]

\* receive_file: process_packet(p) and send_ack()
P1ClientRecv(p) ==
  /\ fw_program = "part1" /\ ~file_complete
  /\ p \in data_net
  /\ LET r == IF p.seq < next_expected
              THEN [ne |-> next_expected, buf |-> p1_receive_buffer, complete |-> FALSE]
              ELSE IF p.seq = next_expected
              THEN IF p.eof
                   THEN [ne |-> next_expected, buf |-> p1_receive_buffer, complete |-> TRUE]
                   ELSE write_buffered_data(next_expected + p.len, p1_receive_buffer)
              ELSE [ne |-> next_expected,
                    buf |-> IF BufferHas(p1_receive_buffer, p.seq)
                            THEN p1_receive_buffer ELSE p1_receive_buffer \cup {p},
                    complete |-> FALSE]
     IN  /\ next_expected' = r.ne
         /\ p1_receive_buffer' = r.buf
         /\ file_complete' = r.complete
         /\ ack_net' = ack_net \cup {create_ack(r.ne, r.buf)}
  /\ FixedFrame
  /\ UNCHANGED <<base, next_seq, window, dup_ack_count, last_ack, fw_pc, data_net>>

(* ---- col334 sender ---- *)

RECURSIVE send_file_loop(_)
\* send_file: the inner while loop, the value of next_seq when it ends
send_file_loop(nseq) ==
  IF nseq < file_size /\ (nseq - base) < sws
  THEN send_file_loop(Min(nseq + DATA_SIZE, file_size))
  ELSE nseq

\* send_file: new packets within the window, up to select
Col334SendNew ==
  /\ fw_program = "col334" /\ fw_pc = "send"
  /\ base < file_size
  /\ LET nseq == send_file_loop(next_seq)
     IN  /\ next_seq' = nseq
         /\ window' = window \cup SegSeqs(next_seq, nseq)
         /\ data_net' = data_net \cup { DataPacket(q) : q \in SegSeqs(next_seq, nseq) }
  /\ fw_pc' = "select"
  /\ FixedFrame
  /\ UNCHANGED <<base, dup_ack_count, last_ack, next_expected, p1_receive_buffer,
                 file_complete, ack_net>>

\* send_file: select returns the socket, the ACK is parsed and handled
Col334RecvAck(a) ==
  /\ fw_program = "col334" /\ fw_pc = "select"
  /\ a \in ack_net
  /\ LET unsacked == { q \in window : ~(InBlocks(q, a.blocks) /\ q >= a.ack) }
     IN  IF a.ack > base
         THEN /\ window' = { q \in unsacked : q >= a.ack }
              /\ base' = a.ack
              /\ dup_ack_count' = 0
              /\ last_ack' = a.ack
         ELSE /\ window' = unsacked
              /\ dup_ack_count' = IF a.ack = last_ack
                                  THEN Min(dup_ack_count + 1, DUP_ACK_THRESHOLD + 1)
                                  ELSE dup_ack_count
              /\ UNCHANGED <<base, last_ack>>
  /\ fw_pc' = "send"
  /\ FixedFrame
  /\ UNCHANGED <<next_seq, next_expected, p1_receive_buffer, file_complete, data_net, ack_net>>

\* send_file: select times out, the packet at base is sent again
Col334Timeout ==
  /\ fw_program = "col334" /\ fw_pc = "select"
  /\ fw_pc' = "send"
  /\ FixedFrame
  /\ UNCHANGED <<base, next_seq, window, dup_ack_count, last_ack, next_expected,
                 p1_receive_buffer, file_complete, data_net, ack_net>>

\* send_file: the loop ends, the EOF marker is sent
Col334SendEof ==
  /\ fw_program = "col334" /\ fw_pc = "send"
  /\ ~(base < file_size)
  /\ data_net' = data_net \cup {EofPacket}
  /\ fw_pc' = "done"
  /\ FixedFrame
  /\ UNCHANGED <<base, next_seq, window, dup_ack_count, last_ack, next_expected,
                 p1_receive_buffer, file_complete, ack_net>>

(* ---- col334 receiver ---- *)

RECURSIVE col334_blocks(_, _, _)
\* get_sack_blocks: the loop over sorted_seqs[1:] and the final block
col334_blocks(es, block_start, block_end) ==
  IF es = <<>> THEN << <<block_start, block_end>> >>
  ELSE LET e == Head(es)
       IN  IF e.seq = block_end
           THEN col334_blocks(Tail(es), block_start, e.seq + e.len)
           ELSE << <<block_start, block_end>> >> \o col334_blocks(Tail(es), e.seq, e.seq + e.len)

\* create_ack_packet(expected_seq, get_sack_blocks()), as parse_ack of the
\* sender reads it: at most one block
create_ack_packet(ne, buf) ==
  LET es == SortedEntries({ e \in buf : e.seq > ne })
      blocks == IF es = <<>> THEN <<>>
                ELSE col334_blocks(Tail(es), es[1].seq, es[1].seq + es[1].len)
  IN  [ack |-> ne, blocks |-> FirstN(blocks, 1)]

\* receive_file: one datagram
Col334ClientRecv(p) ==
  /\ fw_program = "col334" /\ ~file_complete
  /\ p \in data_net
  /\ IF p.eof
     THEN /\ file_complete' = TRUE
          /\ UNCHANGED <<next_expected, p1_receive_buffer, ack_net>>
     ELSE IF p.seq = next_expected
     THEN LET r == write_buffered_data(next_expected + p.len, p1_receive_buffer)
          IN  /\ next_expected' = r.ne
              /\ p1_receive_buffer' = r.buf
              /\ ack_net' = ack_net \cup {create_ack_packet(r.ne, r.buf)}
              /\ UNCHANGED file_complete
     ELSE IF p.seq > next_expected /\ ~BufferHas(p1_receive_buffer, p.seq)
     THEN /\ p1_receive_buffer' = p1_receive_buffer \cup {p}
          /\ ack_net' = ack_net \cup {create_ack_packet(next_expected, p1_receive_buffer \cup {p})}
          /\ UNCHANGED <<next_expected, file_complete>>
     ELSE UNCHANGED <<next_expected, p1_receive_buffer, file_complete, ack_net>>
  /\ FixedFrame
  /\ UNCHANGED <<base, next_seq, window, dup_ack_count, last_ack, fw_pc, data_net>>

(* ---- the two programs ---- *)

\* ReliableUDPServer.__init__ / ReliableUDPClient.__init__ and the arguments
InitFixed ==
  /\ InitCongestion
  /\ InitEndpoints
  /\ file_size \in FixedFileSizes
  /\ fw_program \in {"part1", "col334"}
  /\ tail_is_eof \in IF file_size % MAX_DATA_SIZE = EOF_PAYLOAD_LEN THEN BOOLEAN ELSE {FALSE}
  /\ sws \in SwsSamples
  /\ base = 0
  /\ next_seq = 0
  /\ window = {}
  /\ dup_ack_count = 0
  /\ last_ack = 0
  /\ fw_pc = "send"
  /\ next_expected = 0
  /\ p1_receive_buffer = {}
  /\ file_complete = FALSE

NextFixed ==
  \/ \E budget \in FixedSendBudgets : P1InitialSend(budget)
  \/ \E a \in ack_net, budget \in FixedSendBudgets : P1RecvAck(a, budget)
  \/ \E budget \in FixedSendBudgets : P1CheckTimeouts(budget)
  \/ P1SendEof
  \/ \E p \in data_net : P1ClientRecv(p)
  \/ Col334SendNew
  \/ \E a \in ack_net : Col334RecvAck(a)
  \/ Col334Timeout
  \/ Col334SendEof
  \/ \E p \in data_net : Col334ClientRecv(p)

SpecFixed == InitFixed /\ [][NextFixed]_vars

(* ------------------------------------------------------------------ *)
(* Properties                                                          *)
(* ------------------------------------------------------------------ *)

RECURSIVE SinkLen(_)
\* number of bytes written to the sink
SinkLen(sink) == IF sink = <<>> THEN 0 ELSE Head(sink).len + SinkLen(Tail(sink))

\* the sink position of the first byte of the i-th write
WritePos(i) == SinkLen(SubSeq(output_file, 1, i - 1))

\* the i-th write put file_data[start : start+len] at sink positions
\* WritePos(i) .. WritePos(i)+len-1; these are the source's bytes at the same
\* positions when the slice starts at WritePos(i) and lies inside the file
WriteMatchesSource(i) ==
  /\ output_file[i].start = WritePos(i)
  /\ output_file[i].start + output_file[i].len <= file_size

\* number of writes that cover byte offset o of the source
WriteCount(o) ==
  Cardinality({ i \in DOMAIN output_file :
                  output_file[i].start <= o /\ o < output_file[i].start + output_file[i].len })

\* WriteCount is constant between two consecutive elements of this set, so
\* a statement about WriteCount(o) for every o below a limit holds when it
\* holds for the elements of this set below the limit
WriteEdges ==
  {0} \cup { output_file[i].start : i \in DOMAIN output_file }
      \cup { output_file[i].start + output_file[i].len : i \in DOMAIN output_file }

\* C1 (Reliability): in every reachable state the bytes written to the sink,
\* in order, are a prefix of the source, and once the receiver has returned
\* DONE the sink is the whole source.
C1_Reliability ==
  /\ \A i \in DOMAIN output_file : WriteMatchesSource(i)
  /\ c_outcome = "DONE" => SinkLen(output_file) = file_size

\* a two-segment file fully delivered after a retransmission and a buffered
\* out-of-order segment
C1_Witness ==
  /\ c_outcome = "DONE"
  /\ file_size > PAYLOAD_SIZE
  /\ SinkLen(output_file) = file_size
  /\ \E i \in DOMAIN curr_in_flight_packets : curr_in_flight_packets[i].rc > 0
  /\ \E a \in ack_net : a.sack_start > 0

\* C2 (No gap in the delivered prefix): every byte offset below
\* next_expected_seq_num has been written to the sink exactly once, and
\* nothing at or above it has been written.
C2_NoGap ==
  /\ \A o \in WriteEdges : o < next_expected_seq_num => WriteCount(o) = 1
  /\ \A o \in WriteEdges : o >= next_expected_seq_num => WriteCount(o) = 0

\* the receiver has delivered more than one segment and a segment it has
\* already delivered was retransmitted and is deliverable again
C2_Witness ==
  /\ next_expected_seq_num > PAYLOAD_SIZE
  /\ \E i \in DOMAIN curr_in_flight_packets :
        /\ curr_in_flight_packets[i].seq < next_expected_seq_num
        /\ curr_in_flight_packets[i].rc > 0
  /\ c_last_ack.ack = next_expected_seq_num
  /\ c_pc = "recv"

\* C3 (Monotonicity): no step decreases the receiver's next_expected_seq_num
\* or the sender's curr_base_seq_num.
C3_Monotone ==
  [][ /\ next_expected_seq_num' >= next_expected_seq_num
      /\ curr_base_seq_num' >= curr_base_seq_num ]_vars

\* the sender has processed an ACK older than its base
C3_Witness ==
  /\ curr_base_seq_num > 0
  /\ next_expected_seq_num > 0
  /\ HasFlag(s_last_rcvd.flags, ACK_FLAG)
  /\ s_last_rcvd.ack < curr_base_seq_num
  /\ s_pc = "timeouts"

\* C4 (End-of-stream acknowledgment): when the receiver has delivered the EOF
\* segment in order, the final ACK it emitted has ack = final offset + 1 and
\* flags = ACK|EOF.
C4_FinalAck ==
  c_outcome = "DONE" =>
    /\ c_last_ack.ack = file_size + 1
    /\ c_last_ack.flags = ACK_FLAG + EOF_FLAG

\* C5 (Eventual successful completion): under a fair channel the sender
\* eventually reaches DONE and the receiver eventually reaches DONE.
C5_EventuallyDone == <>(s_outcome = "DONE" /\ c_outcome = "DONE")

C7_NoPartialSuccess ==
  /\ (c_pc = "exited" /\ c_exit = 0) => SinkLen(output_file) = file_size
  /\ (c_pc = "exited" /\ c_outcome = "TIMEOUT") => c_exit # 0

\* C8 (Sender failure indication): a sender stopped by the retransmission
\* cap or by the no-ACK watchdog exits with a non-zero status.
C8_FailureIndicated ==
  (s_pc = "exited" /\ s_outcome \in {"DEAD", "WATCHDOG"}) => s_exit # 0

\* the retransmit count of seq in queue q, -1 when it has no record
RcOf(q, seq) == IF seq \in InFlightSeqs(q) THEN Record(q, seq).rc ELSE -1

\* C9 (Triple duplicate ACK): the third duplicate ACK for a base whose data
\* segment is outstanding retransmits that segment exactly once, sets
\* ssthresh to max(0.7*cwnd, 2*MSS) and cwnd to ssthresh, and records the
\* congestion epoch; the first and second duplicates retransmit nothing.
C9_TripleDupAck ==
  [][ ( /\ n_dup_ack' = n_dup_ack + 1
        /\ curr_base_seq_num \in InFlightSeqs(curr_in_flight_packets)
        /\ ~HasFlag(Record(curr_in_flight_packets, curr_base_seq_num).pkt.flags, EOF_FLAG) )
      => IF n_dup_ack' = 3
         THEN /\ RcOf(curr_in_flight_packets', curr_base_seq_num)
                   = RcOf(curr_in_flight_packets, curr_base_seq_num) + 1
              /\ ssthresh' = Max(IntMul07(cwnd_bytes), MIN_SSTHRESH)
              /\ cwnd_bytes' = ssthresh'
              /\ t_last_congestion' = 1
         ELSE n_dup_ack' < 3 => curr_in_flight_packets' = curr_in_flight_packets ]_vars

\* C10 (SACK honesty at the sender): a timeout never retransmits a segment
\* whose sequence number is in sacked_packets.
C10_SackHonesty ==
  [][ \A seq \in InFlightSeqs(curr_in_flight_packets) :
        RcOf(curr_in_flight_packets', seq) = RcOf(curr_in_flight_packets, seq) + 1
          => seq \notin sacked_packets ]_vars

C12_TimeoutCollapse ==
  [][ (s_pc = "timeouts" /\ curr_in_flight_packets' # curr_in_flight_packets)
      => ( /\ ssthresh' = Max(IntMul07(cwnd_bytes), MIN_SSTHRESH)
           /\ cwnd_bytes' = ssthresh'
           /\ cwnd_bytes' <= cwnd_bytes
           /\ state' = STATE_CA ) ]_vars

\* the retransmit counts of the records Server.handle_new_acks of
\* sub/.../part2/p2_server.py passes to update_rto when it handles ACK a
SampledRc(a) ==
  IF IsNewAck(a.ack, curr_base_seq_num) /\ TakesSample(curr_in_flight_packets, a.ack)
  THEN {Record(curr_in_flight_packets, SetMax(NewlyAcked(curr_in_flight_packets, a.ack))).rc}
  ELSE {}

\* the same for Server.process_incoming_ack of src/p2_server.py, whose
\* sent_packets holds the same records (send_packet stores count 0,
\* resend_packet adds 1): a new ACK that is not the final one samples the
\* record of base_seq_num, whatever its count
SampledRcFromBase(a) ==
  IF /\ ~(eof_sent_seq # -1 /\ a.ack > eof_sent_seq)
     /\ a.ack > curr_base_seq_num
     /\ curr_base_seq_num \in InFlightSeqs(curr_in_flight_packets)
  THEN {Record(curr_in_flight_packets, curr_base_seq_num).rc}
  ELSE {}

\* C13 (Karn's rule): whichever of the senders handles an ACK, the record it
\* takes an RTT sample from has retransmit count 0.
C13_KarnsRule ==
  \A a \in ack_net :
    (s_pc = "select" /\ HasFlag(a.flags, ACK_FLAG))
      => \A rc \in SampledRc(a) \cup SampledRcFromBase(a) : rc = 0

\* C14 (Retransmission cap): no record is retransmitted more than
\* RESEND_LIMIT + 1 times; a timer that runs out on a record already
\* retransmitted more than RESEND_LIMIT times resends nothing; and once the
\* session is marked dead no datagram is sent, the queue is left alone and
\* the loop ends at its next check of is_connection_dead.
C14_RetransmissionCap ==
  /\ [](\A i \in DOMAIN curr_in_flight_packets :
          curr_in_flight_packets[i].rc <= RESEND_LIMIT + 1)
  /\ [][ ( /\ s_pc = "timeouts"
           /\ curr_in_flight_packets # <<>>
           /\ curr_in_flight_packets[1].rc > RESEND_LIMIT )
         => (curr_in_flight_packets' = curr_in_flight_packets /\ data_net' = data_net) ]_vars
  /\ [][ is_connection_dead
         => ( /\ data_net' = data_net
              /\ curr_in_flight_packets' = curr_in_flight_packets
              /\ is_connection_dead'
              /\ (s_pc = "select" /\ s_pc' # s_pc) => s_pc' = "exited" ) ]_vars

\* the sender has stopped because a segment retransmitted RESEND_LIMIT + 1
\* times was due again
C14_Witness ==
  /\ s_pc = "exited"
  /\ s_outcome = "DEAD"
  /\ is_connection_dead
  /\ \E i \in DOMAIN curr_in_flight_packets :
        curr_in_flight_packets[i].rc = RESEND_LIMIT + 1

\* C15 (Malformed datagram handling): an endpoint that receives a datagram
\* shorter than the header changes no protocol state, emits no ACK and
\* keeps running.
C15_MalformedDropped ==
  [][ \A p \in ShortDatagrams :
        (ClientRecvShort(p) \/ RootClientRecvShort(p) \/ ServerRecvShort(p))
          => ( /\ UNCHANGED <<next_expected_seq_num, receive_buffer, receive_buffer_seqs,
                              output_file, curr_base_seq_num, curr_in_flight_packets,
                              cwnd_bytes, n_dup_ack, sacked_packets, ack_net, data_net>>
               /\ c_pc' = c_pc
               /\ s_pc' # "exited" ) ]_vars

\* C16 (Inconsistent SACK rejection): handling an ACK whose SACK block has
\* sack_start > 0 and sack_end <= sack_start changes neither base, the
\* retransmission queue, the SACK marks, the duplicate-ACK counter nor cwnd.
C16_BadSackRejected ==
  [][ ( /\ s_pc = "select" /\ s_pc' # "select" /\ ~is_connection_dead
        /\ HasFlag(s_last_rcvd'.flags, ACK_FLAG)
        /\ s_last_rcvd'.sack_start > 0
        /\ s_last_rcvd'.sack_end <= s_last_rcvd'.sack_start )
      => UNCHANGED <<curr_base_seq_num, curr_in_flight_packets, sacked_packets,
                     n_dup_ack, cwnd_bytes>> ]_vars

\* C17 (Zero-byte payload): when the source is empty the sender emits only
\* the EOF segment at seq 0, the receiver writes nothing to the sink, and
\* both endpoints eventually reach their successful terminal state.
C17_ZeroBytePayload ==
  (file_size = 0) =>
    /\ [](\A p \in data_net : p.seq = 0 /\ HasFlag(p.flags, EOF_FLAG) /\ p.data = EofData)
    /\ [](output_file = <<>>)
    /\ <>(s_outcome = "DONE" /\ c_outcome = "DONE")

\* C18 (Fixed-window hard cap): in the fixed-window senders the number of
\* sent but not cumulatively acknowledged bytes, next_seq - base, never
\* exceeds the sender-window-size argument.
C18_FixedWindowCap == next_seq - base <= sws

\* C19 (cwnd bounds in-flight data): in every reachable state of the
\* congestion-controlled sender the bytes in flight,
\* next_seq_num - curr_base_seq_num, do not exceed cwnd_bytes.
C19_InFlightWithinCwnd == next_seq_num - curr_base_seq_num <= cwnd_bytes

\* C20 (Stale ACK is a no-op): handling an ACK with cum_ack below the base
\* leaves the base, the retransmission queue, the SACK-marked sequences,
\* the duplicate-ACK counter, cwnd, ssthresh and the congestion phase
\* unchanged, with or without a SACK block in the ACK.
C20_StaleAckNoOp ==
  [][ ( /\ s_pc = "select" /\ s_pc' # "select" /\ ~is_connection_dead
        /\ HasFlag(s_last_rcvd'.flags, ACK_FLAG)
        /\ s_last_rcvd'.ack < curr_base_seq_num )
      => UNCHANGED <<curr_base_seq_num, curr_in_flight_packets, sacked_packets,
                     n_dup_ack, cwnd_bytes, ssthresh, state>> ]_vars

\* C21 (Retransmission-record invariant): in every reachable sender state
\* no record exists for a sequence number below the base, a record exists
\* for every segment start in [base, next_seq_num), and one for the EOF
\* segment from its emission until an ACK passes it.
C21_RecordInvariant ==
  /\ \A i \in DOMAIN curr_in_flight_packets :
        curr_in_flight_packets[i].seq >= curr_base_seq_num
  /\ \A k \in 0..(next_seq_num \div PAYLOAD_SIZE) :
        (curr_base_seq_num <= k * PAYLOAD_SIZE /\ k * PAYLOAD_SIZE < next_seq_num)
          => k * PAYLOAD_SIZE \in InFlightSeqs(curr_in_flight_packets)
  /\ (eof_sent_seq # -1 /\ curr_base_seq_num <= eof_sent_seq)
        => eof_sent_seq \in InFlightSeqs(curr_in_flight_packets)

C23_BufferCap == Cardinality(receive_buffer) <= MAX_RECV_WINDOW_PACKETS

\* C24 (Receiver SACK truthfulness): the SACK block of the ACK the receiver
\* has just emitted, when it is not the zero block, is a stretch of bytes
\* held in the reassembly buffer and lies above the ACK's cumulative value.
C24_SackTruthful ==
  (c_last_ack.sack_start # 0 \/ c_last_ack.sack_end # 0)
    => /\ c_last_ack.sack_start > c_last_ack.ack
       /\ \E e \in receive_buffer :
            /\ e.seq = c_last_ack.sack_start
            /\ e.seq + e.data.len = c_last_ack.sack_end

C26_DupCounterReset ==
  /\ [][ ( /\ s_pc = "select" /\ s_pc' # "select" /\ ~is_connection_dead
            /\ HasFlag(s_last_rcvd'.flags, ACK_FLAG)
            /\ s_last_rcvd'.ack > curr_base_seq_num )
          => n_dup_ack' = 0 ]_vars
  /\ [][ curr_base_seq_num' # curr_base_seq_num => n_dup_ack' = 0 ]_vars
  /\ [][ ( /\ s_pc = "select" /\ s_pc' # "select" /\ ~is_connection_dead
            /\ HasFlag(s_last_rcvd'.flags, ACK_FLAG)
            /\ s_last_rcvd'.ack = curr_base_seq_num
            /\ <<cwnd_bytes, ssthresh, w_max_bytes, t_last_congestion>>'
                 # <<cwnd_bytes, ssthresh, w_max_bytes, t_last_congestion>> )
          => (n_dup_ack = 2 /\ n_dup_ack' = 3) ]_vars

\* a new ACK has just been handled: the base stands at its cumulative value
\* and the counter is 0
C26_Witness ==
  /\ s_pc = "timeouts"
  /\ HasFlag(s_last_rcvd.flags, ACK_FLAG)
  /\ curr_base_seq_num > 0
  /\ s_last_rcvd.ack = curr_base_seq_num
  /\ n_dup_ack = 0

\* C27 (Duplicate ACKs past the third): once the third duplicate ACK for a
\* base has brought the congestion reaction, a further duplicate ACK for the
\* same base leaves the window, the threshold and the phase as they are.
C27_DupAckIdempotent ==
  [][ ( /\ dup_ack_count = 3
        /\ HasFlag(s_last_rcvd'.flags, ACK_FLAG)
        /\ s_last_rcvd'.ack = curr_base_seq_num
        /\ curr_base_seq_num' = curr_base_seq_num )
      => UNCHANGED <<cwnd_bytes, ssthresh, state>> ]_vars

\* C28 (Phase after a new ACK): when the sender has handled an ACK with
\* cum_ack above the base and the window is then at or above the threshold,
\* the phase is congestion avoidance.
C28_PhaseAfterNewAck ==
  [][ ( /\ s_pc = "select" /\ s_pc' # "select" /\ ~is_connection_dead
        /\ HasFlag(s_last_rcvd'.flags, ACK_FLAG)
        /\ s_last_rcvd'.ack > curr_base_seq_num
        /\ cwnd_bytes' >= ssthresh' )
      => state' = STATE_CA ]_vars

\* a new ACK has just taken the sender from slow start across the threshold
C28_Witness ==
  /\ s_pc = "timeouts"
  /\ HasFlag(s_last_rcvd.flags, ACK_FLAG)
  /\ curr_base_seq_num > 0
  /\ s_last_rcvd.ack = curr_base_seq_num
  /\ cwnd_bytes >= ssthresh
  /\ state = STATE_CA
  /\ t_last_congestion = 1

\* C29 (EOF emission precondition): the step in which the sender first emits
\* the EOF segment starts with every payload byte acknowledged (the base at
\* the end of the payload) and an empty retransmission queue.
C29_EofAfterData ==
  [][ (eof_sent_seq = -1 /\ eof_sent_seq' # -1)
      => (curr_base_seq_num = file_size /\ curr_in_flight_packets = <<>>) ]_vars

\* C30 (EOF is retransmitted like data): a sender that has emitted EOF goes
\* on sending it until an ACK with cum_ack beyond the end of the payload has
\* arrived; it has not stopped before.
C30_EofUntilAcked ==
  (fw_program # "none" /\ fw_pc = "done") => base > file_size

\* C31 (ACK drain before retransmit): the loop goes from reading the socket
\* to handle_timeouts only when no ACK it could read is left unprocessed
\* (none with cum_ack above the base), and in an iteration that has read an
\* ACK handle_timeouts retransmits no segment that an ACK readable at the
\* socket covers.
C31_AckDrain ==
  /\ [][ (s_pc = "select" /\ s_pc' = "timeouts" /\ s_last_rcvd' # NoPacket)
         => \A a \in ack_net :
              (~HeaderUnreadable(a) /\ HasFlag(a.flags, ACK_FLAG)) => a.ack <= curr_base_seq_num' ]_vars
  /\ [][ (s_pc = "timeouts" /\ s_last_rcvd # NoPacket)
         => \A seq \in InFlightSeqs(curr_in_flight_packets) :
              RcOf(curr_in_flight_packets', seq) = RcOf(curr_in_flight_packets, seq) + 1
                => ~(\E a \in ack_net : HasFlag(a.flags, ACK_FLAG) /\ a.ack > seq) ]_vars

\* the positions of q2 holding a record enqueued with retransmit count 0 by
\* the step from q1 to q2
FreshAt(q1, q2) ==
  { i \in DOMAIN q2 :
      /\ q2[i].rc = 0
      /\ ~(\E j \in DOMAIN q1 : q1[j].seq = q2[i].seq /\ q1[j].rc = 0) }

C33_BackpressureNoState ==
  [][ (s_pc = "send" /\ ~is_connection_dead)
      => /\ ~is_connection_dead'
         /\ \A k \in 0..(next_seq_num' \div PAYLOAD_SIZE) :
              (next_seq_num <= k * PAYLOAD_SIZE /\ k * PAYLOAD_SIZE < next_seq_num')
                => k * PAYLOAD_SIZE \in InFlightSeqs(curr_in_flight_packets')
         /\ (eof_sent_seq = -1 /\ eof_sent_seq' # -1)
              => eof_sent_seq' \in InFlightSeqs(curr_in_flight_packets') ]_vars

\* C34 (w_max from the pre-event window): a timeout that resends a segment,
\* and the third duplicate ACK, set w_max to the cwnd held before the event,
\* or to (1 + 0.7)/2 of it when that is below the previous w_max, and
\* ssthresh to 0.7 of the same cwnd, floored at 2 * MSS (w_max_bytes is kept
\* in twentieths of a byte).
C34_WmaxFromPreEvent ==
  [][ ( \/ (s_pc = "timeouts" /\ curr_in_flight_packets' # curr_in_flight_packets)
        \/ (s_pc = "select" /\ n_dup_ack = 2 /\ n_dup_ack' = 3) )
      => ( /\ w_max_bytes' = IF 20 * cwnd_bytes < w_max_bytes
                             THEN 17 * cwnd_bytes
                             ELSE 20 * cwnd_bytes
           /\ ssthresh' = Max(IntMul07(cwnd_bytes), MIN_SSTHRESH) ) ]_vars

\* C35 (RTO backoff and clamp): rto is within [MIN_RTO, MAX_RTO] in every
\* state (MAX_RTO being the 3 s of update_rto), and a timeout that resends a
\* segment multiplies rto by 1.5, capped at MAX_RTO.
C35_RtoBackoff ==
  /\ [](MIN_RTO <= rto /\ rto <= 3000)
  /\ [][ (s_pc = "timeouts" /\ curr_in_flight_packets' # curr_in_flight_packets)
         => rto' = Min((3 * rto) \div 2, 3000) ]_vars

\* C36 (File-request handshake): the receiver sends the request at most five
\* times, each repeat after a socket timeout of 2 s without a reply; the
\* first datagram it receives is processed as a segment (it is answered by an
\* ACK); when all five attempts time out it stops with an empty sink; and a
\* request datagram reaching the sender once the transfer has begun changes
\* no field of the sender.
C36_Handshake ==
  /\ [](request_attempts <= retries)
  /\ [][ (c_pc = "await" /\ c_pc' = "request") => SOCKET_TIMEOUT_MS = 2000 ]_vars
  /\ [][ (c_pc = "await" /\ c_pc' \in {"recv", "exited"} /\ c_outcome' # "NOCONNECT")
         => (c_last_ack' # NoPacket /\ c_last_ack' \in ack_net') ]_vars
  /\ [](c_outcome = "NOCONNECT"
          => (c_pc = "exited" /\ request_attempts = retries /\ output_file = <<>>))
  /\ [][ (s_pc = "select" /\ s_pc' = "timeouts" /\ HeaderUnreadable(s_last_rcvd'))
         => UNCHANGED <<file_size, state, cwnd_bytes, ssthresh, next_seq_num,
                        curr_base_seq_num, eof_sent_seq, is_connection_dead,
                        curr_in_flight_packets, n_dup_ack, sacked_packets, w_max_bytes,
                        t_last_congestion, ack_worth_count, n_rtt_samples, rto,
                        s_outcome, s_exit>> ]_vars

\* C37 (Sender never ahead of the receiver): the sender's base is at most
\* the receiver's next_expected_seq_num, and at most the final offset plus
\* one once the receiver has delivered EOF; every segment of the source
\* below the base, whose record the sender has dropped from its queue, has
\* been written to the sink.
C37_SenderNotAhead ==
  /\ curr_base_seq_num <= IF c_outcome = "DONE" THEN file_size + 1 ELSE next_expected_seq_num
  /\ \A k \in 0..MaxFileSegments :
        (k * PAYLOAD_SIZE < file_size /\ k * PAYLOAD_SIZE < curr_base_seq_num)
          => /\ k * PAYLOAD_SIZE \notin InFlightSeqs(curr_in_flight_packets)
             /\ WriteCount(k * PAYLOAD_SIZE) >= 1

\* the sender has dropped the first segment of a longer file on a cumulative
\* ACK, has caught up with the receiver and still holds later records
C37_Witness ==
  /\ file_size > PAYLOAD_SIZE
  /\ curr_base_seq_num = PAYLOAD_SIZE
  /\ curr_base_seq_num = next_expected_seq_num
  /\ curr_in_flight_packets # <<>>
  /\ c_pc = "recv"

\* C38 (Sender success implies delivery): whenever the sender has reached
\* the DONE outcome the receiver has delivered the EOF segment in order
\* (it has returned DONE) and the sink is the whole source; the ACK that
\* ends the sender was sent after the last payload byte was written.
C38_DoneImpliesDelivered ==
  s_outcome = "DONE"
    => /\ c_outcome = "DONE"
       /\ SinkLen(output_file) = file_size
       /\ \A i \in DOMAIN output_file : WriteMatchesSource(i)
       /\ \E a \in ack_net : HasFlag(a.flags, EOF_FLAG) /\ a.ack > file_size

\* the sender has finished a file of more than one segment on the final ACK
C38_Witness ==
  /\ s_outcome = "DONE"
  /\ file_size > PAYLOAD_SIZE
  /\ s_last_rcvd # NoPacket
  /\ HasFlag(s_last_rcvd.flags, EOF_FLAG)

\* C39 (End of stream by the EOF segment only): the receiver ends the stream
\* only on the EOF segment, never on a data segment, whatever the payload
\* reads, and it has then written every data segment's bytes: the sink holds
\* the whole source.
C39_EofByFlagOnly ==
  /\ [][ (~file_complete /\ file_complete') => EofPacket \in data_net ]_vars
  /\ [](file_complete => next_expected = file_size)

\* C40 (No retransmission deadlock in the SACK-deleting senders): whenever
\* base is below the file size and below next_seq, the record for sequence
\* number base is still in the retransmission buffer.
C40_BaseRecordPresent ==
  (base < file_size /\ base < next_seq) => base \in window

====
